---- MODULE Spec2Model ----
(***************************************************************************)
(* Model of the configuration injector of the credit-calculator scripts:   *)
(* config_utils.apply_loan_parameters, its copy in apply_config.py, and    *)
(* the entry points that call them (apply-config.py, apply_config.py,      *)
(* upload.py).                                                             *)
(*                                                                         *)
(* A document is a sequence of lexemes (strings).  The lexemes are chosen  *)
(* so that every literal of the regular expressions of the source is a     *)
(* whole number of lexemes and every lexeme lies entirely inside or        *)
(* entirely outside the two character classes [^>] and [^"]: Q is the      *)
(* double quote, GT is '>', every other lexeme holds neither.  re.sub is   *)
(* modelled by a backtracking matcher over these sequences (leftmost       *)
(* match, greedy stars), not by an attribute-level shortcut.               *)
(***************************************************************************)
EXTENDS Integers, Sequences, FiniteSets, TLC

VARIABLES
    html_content,   \* the document text handed to the injector
    loan_config,    \* config['loan']: a function from the keys present to entries
    tags,           \* the structure html_content was written from (ghost)
    out_utils,      \* outcome of config_utils.apply_loan_parameters
    out_script,     \* outcome of apply_config.apply_loan_parameters
    out_again,      \* outcome of config_utils.apply_loan_parameters on out_utils
    runs,           \* number of further re-applications folded into out_again
    env,            \* what an entry point finds: the script run, config.yml, .env, network
    config,         \* what load_config returned
    files,          \* index.html, the -o file and .build/index.html
    build_exists,   \* whether the directory .build exists
    written,        \* the paths an open(..., "w") has written
    uploaded,       \* what upload_to_ftp stored on the server
    ftp_calls,      \* calls of upload_to_ftp
    pc,             \* where the entry point stands
    status          \* how the process ended

injectorVars == <<html_content, loan_config, tags, out_utils, out_script, out_again, runs>>
scriptVars == <<env, config, files, build_exists, written, uploaded, ftp_calls, pc, status>>
vars == <<injectorVars, scriptVars>>

-----------------------------------------------------------------------------
(* Lexemes *)

Q == "\""
GT == ">"
SP == " "
INPUT == "<input"
G1 == "\\g<1>"
G3 == "\\g<3>"

\* The six keys of the loan section, in the order the replacements dict lists them.
Keys == <<"principal", "interest_rate", "effective_rate", "tilgung", "duration",
          "default_special_payment">>

KeySet == {Keys[i] : i \in DOMAIN Keys}

\* The hyphenated id each key is written to (the keys of the replacements dict).
FieldId(key) ==
    CASE key = "principal" -> "principal"
      [] key = "interest_rate" -> "interest-rate"
      [] key = "effective_rate" -> "effective-rate"
      [] key = "tilgung" -> "tilgung"
      [] key = "duration" -> "duration"
      [] key = "default_special_payment" -> "default-special-payment"

-----------------------------------------------------------------------------
(* str() of a configured number, as the f-string of the replacement renders
   it.  PyInt(n) is a Python int, PyFloat(n, d) the float n.d (2.0 is
   PyFloat(2, 0)): an int renders as its digits, a float as digits, point,
   digits; neither is grouped or given a currency sign. *)

PyInt(n) == [kind |-> "int", int |-> n]
PyFloat(n, d) == [kind |-> "float", int |-> n, frac |-> d]

\* Faulty variant: the grouped rendering the summary lines of apply_config.py use.
StrGrouped(v) ==
    IF v.kind = "int"
    THEN IF v.int >= 1000
         THEN <<ToString(v.int \div 1000), ",", ToString(v.int % 1000)>>
         ELSE <<ToString(v.int)>>
    ELSE <<ToString(v.int), ".", ToString(v.frac)>>

Str(v) ==
    IF v.kind = "int" THEN <<ToString(v.int)>>
    ELSE <<ToString(v.int), ".", ToString(v.frac)>>

-----------------------------------------------------------------------------
(* Regular expressions: a pattern is a sequence of literals and greedy
   negated-class stars. *)

Lit(c) == [t |-> "lit", c |-> c, ex |-> {}]
Star(ex) == [t |-> "star", c |-> "", ex |-> ex]

\* Faulty variant: the id matched as a prefix, id="{field_id}[^"]*".
PrefixPattern(field_id, attr) ==
    << Lit(INPUT), Star({GT}), Lit("id="), Lit(Q), Lit(field_id), Star({Q}), Lit(Q),
       Star({GT}), Lit(attr), Lit(Q), Star({Q}), Lit(Q) >>

\* (<input[^>]*id="{field_id}"[^>]*{attr}=")([^"]*)(")
AttrPattern(field_id, attr) ==
    << Lit(INPUT), Star({GT}), Lit("id="), Lit(Q), Lit(field_id), Lit(Q),
       Star({GT}), Lit(attr), Lit(Q), Star({Q}), Lit(Q) >>

\* Group 2 is the last star of a pattern, group 1 everything before it and
\* group 3 the closing quote after it: in a match m (the start position of
\* every element, then the end) group 2 starts at m[Len(m) - 2].

\* The longest run of lexemes from position i on that the class [^ex] accepts.
RunLen(s, i, ex) ==
    CHOOSE n \in 0..(Len(s) + 1 - i) :
        /\ i + n > Len(s) \/ s[i + n] \in ex
        /\ \A h \in i..(i + n - 1) : s[h] \notin ex

\* The backtracking match of pat[k..] at position i of s: the sequence of the
\* positions at which each remaining element starts, then the end position;
\* <<>> when there is no match.  A star tries its longest run first.
RECURSIVE MatchAt(_, _, _, _), TryStar(_, _, _, _, _)
MatchAt(pat, k, s, i) ==
    IF k > Len(pat) THEN <<i>>
    ELSE IF pat[k].t = "lit"
    THEN IF i <= Len(s) /\ s[i] = pat[k].c
         THEN LET r == MatchAt(pat, k + 1, s, i + 1)
              IN  IF r = <<>> THEN <<>> ELSE <<i>> \o r
         ELSE <<>>
    ELSE TryStar(pat, k, s, i, RunLen(s, i, pat[k].ex))

TryStar(pat, k, s, i, m) ==
    LET r == MatchAt(pat, k + 1, s, i + m)
    IN  IF r # <<>> THEN <<i>> \o r
        ELSE IF m = 0 THEN <<>>
        ELSE TryStar(pat, k, s, i, m - 1)

\* Expansion of a replacement template against a match m of s.
RECURSIVE Expand(_, _, _)
Expand(template, s, m) ==
    IF template = <<>> THEN <<>>
    ELSE LET h == Head(template)
             piece == IF h = G1 THEN SubSeq(s, m[1], m[Len(m) - 2] - 1)
                      ELSE IF h = G3 THEN SubSeq(s, m[Len(m) - 1], m[Len(m)] - 1)
                      ELSE <<h>>
         IN  piece \o Expand(Tail(template), s, m)

\* The first position from i on where lexeme c stands, Len(s) + 1 if none.
NextAt(s, c, i) ==
    CHOOSE j \in i..(Len(s) + 1) :
        /\ j = Len(s) + 1 \/ s[j] = c
        /\ \A h \in i..(j - 1) : s[h] # c

\* re.sub(pattern, template, s): every non-overlapping match, leftmost first.
\* The pattern starts with a literal, so a match can start only where that
\* literal stands; the text up to there is copied.
RECURSIVE SubFrom(_, _, _, _)
SubFrom(pat, template, s, i) ==
    IF i > Len(s) THEN <<>>
    ELSE LET j == NextAt(s, pat[1].c, i)
             m == MatchAt(pat, 1, s, j)
         IN  IF j > Len(s) THEN SubSeq(s, i, Len(s))
             ELSE IF m = <<>> THEN SubSeq(s, i, j) \o SubFrom(pat, template, s, j + 1)
             ELSE SubSeq(s, i, j - 1) \o Expand(template, s, m)
                    \o SubFrom(pat, template, s, m[Len(m)])

ReSub(pat, template, s) == SubFrom(pat, template, s, 1)

\* rf'\g<1>{value}\g<3>'
Replacement(text) == <<G1>> \o text \o <<G3>>

-----------------------------------------------------------------------------
(* The injector *)

Ok(html) == [status |-> "ok", html |-> html]
Raised(e) == [status |-> e, html |-> <<>>]
NotRun == [status |-> "none", html |-> <<>>]

\* Faulty variant: the loop gives up at the first field id that matches nothing.
RECURSIVE ReplaceValuesStop(_, _, _)
ReplaceValuesStop(html, cfg, i) ==
    IF i > Len(Keys) THEN html
    ELSE LET next == ReSub(AttrPattern(FieldId(Keys[i]), "value="),
                           Replacement(Str(cfg[Keys[i]].value)), html)
         IN  IF next = html THEN html ELSE ReplaceValuesStop(next, cfg, i + 1)

\* The for loop over replacements.items(), from key number i on.
RECURSIVE ReplaceValues(_, _, _)
ReplaceValues(html, cfg, i) ==
    IF i > Len(Keys) THEN html
    ELSE ReplaceValues(
            ReSub(AttrPattern(FieldId(Keys[i]), "value="),
                  Replacement(Str(cfg[Keys[i]].value)), html),
            cfg, i + 1)

\* Faulty variant: an absent placeholder is written as the empty string.
ReplacePlaceholderAlways(html, cfg) ==
    ReSub(AttrPattern("default-special-payment", "placeholder="),
          Replacement(IF "placeholder" \in DOMAIN cfg["default_special_payment"]
                      THEN cfg["default_special_payment"].placeholder ELSE <<>>),
          html)

\* The placeholder of default-special-payment, when the entry has one.
ReplacePlaceholder(html, cfg) ==
    IF "default_special_payment" \in DOMAIN cfg
       /\ "placeholder" \in DOMAIN cfg["default_special_payment"]
    THEN ReSub(AttrPattern("default-special-payment", "placeholder="),
               Replacement(cfg["default_special_payment"].placeholder), html)
    ELSE html

\* The replacements dict is built before any substitution: a missing key
\* raises KeyError with html_content untouched.
MissingKey(cfg) == \E k \in KeySet : k \notin DOMAIN cfg

\* Faulty variant: a missing key is skipped instead of raising.
RECURSIVE ReplacePresent(_, _, _)
ReplacePresent(html, cfg, i) ==
    IF i > Len(Keys) THEN html
    ELSE IF Keys[i] \notin DOMAIN cfg THEN ReplacePresent(html, cfg, i + 1)
    ELSE ReplacePresent(
            ReSub(AttrPattern(FieldId(Keys[i]), "value="),
                  Replacement(Str(cfg[Keys[i]].value)), html),
            cfg, i + 1)

UtilsApplyLenient(html, cfg) == Ok(ReplacePlaceholder(ReplacePresent(html, cfg, 1), cfg))

\* config_utils.apply_loan_parameters
UtilsApply(html, cfg) ==
    IF DOMAIN cfg = {} THEN Ok(html)
    ELSE IF MissingKey(cfg) THEN Raised("KeyError")
    ELSE Ok(ReplacePlaceholder(ReplaceValues(html, cfg, 1), cfg))

\* apply_config.apply_loan_parameters
ScriptApply(html, cfg) ==
    IF MissingKey(cfg) THEN Raised("KeyError")
    ELSE Ok(ReplaceValues(html, cfg, 1))

-----------------------------------------------------------------------------
(* Documents.  A tag is an opening lexeme and a sequence of attributes, each a
   name (one or two lexemes, the last ending in '=') and a content. *)

Attr(n, c) == [n |-> n, c |-> c]

AttrText(a) == <<SP>> \o a.n \o <<Q>> \o a.c \o <<Q>>

RECURSIVE AttrsText(_)
AttrsText(as) == IF as = <<>> THEN <<>> ELSE AttrText(Head(as)) \o AttrsText(Tail(as))

TagText(t) == <<t.open>> \o AttrsText(t.attrs) \o <<GT>>

\* Text outside tags: before every tag, and after the last one (where it
\* holds something that looks like a value attribute).
Before == <<"Betrag:">>
After == <<SP, "value=", Q, "keep", Q>>

RECURSIVE TagsText(_)
TagsText(ts) ==
    IF ts = <<>> THEN After ELSE Before \o TagText(Head(ts)) \o TagsText(Tail(ts))

\* The text split after every '>': segment j is the text before tag j and
\* tag j itself, the last segment is the text after the last tag.
RECURSIVE SegmentsFrom(_, _)
SegmentsFrom(s, i) ==
    LET j == NextAt(s, GT, i)
    IN  IF j > Len(s) THEN <<SubSeq(s, i, Len(s))>>
        ELSE <<SubSeq(s, i, j)>> \o SegmentsFrom(s, j + 1)

Segments(s) == SegmentsFrom(s, 1)

(* Tag shapes.  idl is the content of the id attribute, a sequence of lexemes. *)

IdA(idl) == Attr(<<"id=">>, idl)
ValueA == Attr(<<"value=">>, <<"OLD">>)
EmptyValueA == Attr(<<"value=">>, <<>>)
PlaceholderA == Attr(<<"placeholder=">>, <<"0,00">>)
DataValueA == Attr(<<"data-", "value=">>, <<"raw">>)
DataPlaceholderA == Attr(<<"data-", "placeholder=">>, <<"hint">>)
TypeA == Attr(<<"type=">>, <<"number">>)
ClassA == Attr(<<"class=">>, <<"field">>)
StepA == Attr(<<"step=">>, <<"1">>)

Tag(open, attrs) == [open |-> open, attrs |-> attrs]

\* <input id="K" value="OLD">, the form the documents of the page use
Plain(idl) == Tag(INPUT, <<IdA(idl), ValueA>>)
\* other attributes before, between and after
Full(idl) == Tag(INPUT, <<TypeA, IdA(idl), ClassA, ValueA, StepA>>)
Empty(idl) == Tag(INPUT, <<IdA(idl), EmptyValueA>>)
\* value before id
Reversed(idl) == Tag(INPUT, <<ValueA, IdA(idl)>>)
\* an attribute after value whose name ends in value
WithData(idl) == Tag(INPUT, <<IdA(idl), ValueA, DataValueA>>)
\* the same attribute before value
DataFirst(idl) == Tag(INPUT, <<IdA(idl), DataValueA, ValueA>>)
\* an element that is no input
Select(idl) == Tag("<select", <<IdA(idl), ValueA>>)
\* with a placeholder, in the positions it can take
WithPh(idl) == Tag(INPUT, <<TypeA, IdA(idl), ValueA, PlaceholderA>>)
PhFirst(idl) == Tag(INPUT, <<IdA(idl), PlaceholderA, ValueA>>)
PhBeforeId(idl) == Tag(INPUT, <<PlaceholderA, IdA(idl), ValueA>>)
PhData(idl) == Tag(INPUT, <<IdA(idl), ValueA, PlaceholderA, DataPlaceholderA>>)

Ids == {FieldId(k) : k \in KeySet}

\* ids that hold a field id as a proper prefix or suffix
LongerIds == {<<f, "-extra">> : f \in Ids} \cup {<<f, "-custom">> : f \in Ids}
                \cup {<<"my-", f>> : f \in Ids}

DSP == "default-special-payment"

-----------------------------------------------------------------------------
(* Bounds *)

MaxTags == 2    \* tags in a document drawn from MixPool
MaxRuns == 2    \* re-applications of the injector to its own output

-----------------------------------------------------------------------------
(* The documents and configurations the injector is applied to *)

\* One tag: every shape for every field id, every longer id, the placeholder
\* shapes for the field that has one and for one that has none configured.
SingleTags ==
    UNION { { Plain(<<f>>), Full(<<f>>), Empty(<<f>>), Reversed(<<f>>),
              WithData(<<f>>), DataFirst(<<f>>), Select(<<f>>) } : f \in Ids }
    \cup { Plain(l) : l \in LongerIds }
    \cup { WithPh(<<DSP>>), PhFirst(<<DSP>>), PhBeforeId(<<DSP>>), PhData(<<DSP>>),
           WithPh(<<"principal">>) }

\* The form of the page: one input per key of a subset, in the order of Keys.
FormTag(k) == IF k = "default_special_payment" THEN WithPh(<<DSP>>)
              ELSE Plain(<<FieldId(k)>>)

RECURSIVE FormFrom(_, _)
FormFrom(S, i) ==
    IF i > Len(Keys) THEN <<>>
    ELSE (IF Keys[i] \in S THEN <<FormTag(Keys[i])>> ELSE <<>>) \o FormFrom(S, i + 1)

Form(S) == FormFrom(S, 1)

\* Several tags of different shapes in one document, repeats included.
MixPool ==
    { Plain(<<"principal">>), Reversed(<<"interest-rate">>), WithData(<<"duration">>),
      Plain(<<"interest-rate", "-extra">>), WithPh(<<DSP>>), PhData(<<DSP>>),
      Select(<<"tilgung">>), Full(<<"effective-rate">>) }

Documents ==
    { <<t>> : t \in SingleTags }
    \cup { Form(S) : S \in SUBSET KeySet }
    \cup UNION { [1..n -> MixPool] : n \in 2..MaxTags }

\* The values of the specification's example, and a second table.
TableA(k) ==
    CASE k = "principal" -> PyInt(300000)
      [] k = "interest_rate" -> PyFloat(3, 5)
      [] k = "effective_rate" -> PyFloat(3, 56)
      [] k = "tilgung" -> PyFloat(2, 0)
      [] k = "duration" -> PyInt(25)
      [] k = "default_special_payment" -> PyInt(5000)

TableB(k) ==
    CASE k = "principal" -> PyInt(1250000)
      [] k = "interest_rate" -> PyInt(4)
      [] k = "effective_rate" -> PyFloat(4, 7)
      [] k = "tilgung" -> PyInt(1)
      [] k = "duration" -> PyInt(0)
      [] k = "default_special_payment" -> PyFloat(0, 0)

Value(tb, k) == IF tb = "A" THEN TableA(k) ELSE TableB(k)

\* Placeholder texts: none configured, the example's, and one that holds
\* double quotes (placeholder: 'z.B. "5000"' in config.yml).
NoPlaceholder == <<>>
PlainPlaceholder == <<"e.g.", SP, "5000">>
QuotedPlaceholder == <<"z.B.", SP, Q, "5000", Q>>

\* The loan section with the keys of S present; ph is the placeholder of
\* default_special_payment, other says whether principal carries one too.
LoanConfig(S, tb, ph, other) ==
    [ k \in S |->
        IF k = "default_special_payment" /\ ph # NoPlaceholder
        THEN [value |-> Value(tb, k), placeholder |-> ph]
        ELSE IF k = "principal" /\ other
        THEN [value |-> Value(tb, k), placeholder |-> <<"Summe">>]
        ELSE [value |-> Value(tb, k)] ]

\* In the second table principal carries a placeholder of its own.
FullConfigs ==
    { LoanConfig(KeySet, tb, ph, tb = "B") :
        tb \in {"A", "B"},
        ph \in {NoPlaceholder, PlainPlaceholder, QuotedPlaceholder} }

\* One key missing, or the whole section empty.
PartialConfigs ==
    { LoanConfig(KeySet \ {k}, "A", ph, FALSE) :
        k \in KeySet, ph \in {NoPlaceholder, PlainPlaceholder} }
    \cup { LoanConfig({}, "A", NoPlaceholder, FALSE) }

PartialDocuments == { Form(KeySet), <<Full(<<"principal">>)>> }

-----------------------------------------------------------------------------
(* Files and the environment of the entry points *)

NoFile == [exists |-> FALSE, text |-> <<>>]
File(text) == [exists |-> TRUE, text |-> text]

IndexHtml == "index.html"
BuildIndex == ".build/index.html"
OutHtml == "out.html"

Paths == {IndexHtml, BuildIndex, OutHtml}
NoFiles == [p \in Paths |-> NoFile]

NoScript == [entry |-> "none"]

(* The injector as a state machine: a document and a configuration are
   chosen, then each copy of apply_loan_parameters is applied to them, and
   config_utils' copy again to its own output. *)

Init ==
    /\ \/ tags \in Documents /\ loan_config \in FullConfigs
       \/ tags \in PartialDocuments /\ loan_config \in PartialConfigs
    /\ html_content = TagsText(tags)
    /\ out_utils = NotRun
    /\ out_script = NotRun
    /\ out_again = NotRun
    /\ runs = 0
    /\ env = NoScript
    /\ config = "unloaded"
    /\ files = NoFiles
    /\ build_exists = FALSE
    /\ written = {}
    /\ uploaded = NoFile
    /\ ftp_calls = 0
    /\ pc = "injector"
    /\ status = "running"

RunUtils ==
    /\ out_utils = NotRun
    /\ out_utils' = UtilsApply(html_content, loan_config)
    /\ UNCHANGED <<html_content, loan_config, tags, out_script, out_again, runs>>
    /\ UNCHANGED scriptVars

RunScript ==
    /\ out_utils # NotRun
    /\ out_script = NotRun
    /\ out_script' = ScriptApply(html_content, loan_config)
    /\ UNCHANGED <<html_content, loan_config, tags, out_utils, out_again, runs>>
    /\ UNCHANGED scriptVars

RunAgain ==
    /\ out_script # NotRun
    /\ out_utils.status = "ok"
    /\ runs < MaxRuns
    /\ out_again' = UtilsApply(IF runs = 0 THEN out_utils.html ELSE out_again.html,
                               loan_config)
    /\ runs' = runs + 1
    /\ UNCHANGED <<html_content, loan_config, tags, out_utils, out_script>>
    /\ UNCHANGED scriptVars

Next == RunUtils \/ RunScript \/ RunAgain

Spec == Init /\ [][Next]_vars

-----------------------------------------------------------------------------
(* The entry points *)

\* Faulty variant: an absent or unparsable config.yml is read as a default dictionary.
LoadConfigDefault(config_file) == "dict"

\* config_utils.load_config: None, with a warning, when config.yml is absent
\* or unparsable.
LoadConfig(config_file) == IF config_file = "parsed" THEN "dict" ELSE "None"

\* config and 'loan' in config
HasLoan(cfg, e) == cfg = "dict" /\ e.has_loan

\* The reference to D3.js on the CDN, and the local one.
ScriptTag(url) == <<"<script", SP, "src=", Q, url, Q, GT, "</script", GT>>
CdnScript == ScriptTag("https://d3js.org/d3.v7.min.js")
LocalScript == ScriptTag("lib/d3.v7.min.js")

IsAt(s, old, i) == i + Len(old) - 1 <= Len(s) /\ SubSeq(s, i, i + Len(old) - 1) = old

\* str.replace(old, new): every occurrence, leftmost first
RECURSIVE ReplaceFrom(_, _, _, _)
ReplaceFrom(s, old, new, i) ==
    LET j == CHOOSE j \in i..(Len(s) + 1) :
                /\ j = Len(s) + 1 \/ IsAt(s, old, j)
                /\ \A h \in i..(j - 1) : ~IsAt(s, old, h)
    IN  IF j > Len(s) THEN SubSeq(s, i, Len(s))
        ELSE SubSeq(s, i, j - 1) \o new \o ReplaceFrom(s, old, new, j + Len(old))

StrReplace(s, old, new) == ReplaceFrom(s, old, new, 1)

\* The outcome of one run of a script that injects into a file: its exit
\* status ("0", "1", or the exception that ended it), and the files after it.
Exit(st, fs, wr) == [status |-> st, files |-> fs, written |-> wr]

\* apply-config.py main
ApplyConfigMain(e, fs, loan) ==
    LET cfg == LoadConfig(e.config_file)
    IN  IF ~HasLoan(cfg, e) THEN Exit("1", fs, {})
        ELSE IF ~fs[IndexHtml].exists THEN Exit("1", fs, {})
        ELSE LET r == UtilsApply(fs[IndexHtml].text, loan)
             IN  IF r.status # "ok" THEN Exit(r.status, fs, {})
                 ELSE Exit("0", [fs EXCEPT ![IndexHtml] = File(r.html)], {IndexHtml})

\* apply_config.py apply_config_to_html: its own load_config exits with
\* status 1 when config.yml is absent or unparsable.
ApplyConfigToHtml(e, fs, loan) ==
    IF e.config_file # "parsed" THEN Exit("1", fs, {})
    ELSE IF ~e.has_loan THEN Exit("1", fs, {})
    ELSE IF ~fs[IndexHtml].exists THEN Exit("1", fs, {})
    ELSE LET r == ScriptApply(fs[IndexHtml].text, loan)
         IN  IF r.status # "ok" THEN Exit(r.status, fs, {})
             ELSE Exit("0", [fs EXCEPT ![e.output] = File(r.html)], {e.output})

\* upload.py prepare_files: the assets are copied, index.html is read, the
\* CDN reference replaced, the loan parameters applied when there are any,
\* and the result written to the build directory.
PrepareFiles(e, cfg, fs, loan) ==
    IF ~e.assets \/ ~fs[IndexHtml].exists THEN Exit("FileNotFoundError", fs, {})
    ELSE LET content == StrReplace(fs[IndexHtml].text, CdnScript, LocalScript)
             r == IF HasLoan(cfg, e) THEN UtilsApply(content, loan) ELSE Ok(content)
         IN  IF r.status # "ok" THEN Exit(r.status, fs, {})
             ELSE Exit("ok", [fs EXCEPT ![BuildIndex] = File(r.html)], {BuildIndex})

RunApplyConfig ==
    /\ env.entry = "apply-config.py" /\ pc = "start"
    /\ LET x == ApplyConfigMain(env, files, loan_config)
       IN  /\ files' = x.files
           /\ written' = written \cup x.written
           /\ status' = x.status
    /\ config' = LoadConfig(env.config_file)
    /\ pc' = "done"
    /\ UNCHANGED <<env, build_exists, uploaded, ftp_calls>>
    /\ UNCHANGED injectorVars

RunApplyConfigToHtml ==
    /\ env.entry = "apply_config.py" /\ pc = "start"
    /\ LET x == ApplyConfigToHtml(env, files, loan_config)
       IN  /\ files' = x.files
           /\ written' = written \cup x.written
           /\ status' = x.status
    /\ config' = IF env.config_file = "parsed" THEN "dict" ELSE config
    /\ pc' = "done"
    /\ UNCHANGED <<env, build_exists, uploaded, ftp_calls>>
    /\ UNCHANGED injectorVars

(* upload.py main, step by step.  sys.exit and an exception inside the try
   block go through the finally clause: pc = "finally" with the exit status
   pending in status. *)

UploadLoad ==
    /\ env.entry = "upload.py" /\ pc = "start"
    /\ config' = LoadConfig(env.config_file)
    /\ pc' = "credentials"
    /\ UNCHANGED <<env, files, build_exists, written, uploaded, ftp_calls, status>>
    /\ UNCHANGED injectorVars

\* .env, else the ftp section of config.yml, else exit; then all three
\* credentials must be set.
UploadCredentials ==
    /\ env.entry = "upload.py" /\ pc = "credentials"
    /\ IF (env.dotenv \/ (config = "dict" /\ env.has_ftp)) /\ env.creds
       THEN pc' = "mkdir" /\ status' = status
       ELSE pc' = "done" /\ status' = "1"
    /\ UNCHANGED <<env, config, files, build_exists, written, uploaded, ftp_calls>>
    /\ UNCHANGED injectorVars

\* rmtree of a .build left behind, then mkdir
UploadMkdir ==
    /\ env.entry = "upload.py" /\ pc = "mkdir"
    /\ build_exists' = TRUE
    /\ files' = [files EXCEPT ![BuildIndex] = NoFile]
    /\ pc' = "apply"
    /\ UNCHANGED <<env, config, written, uploaded, ftp_calls, status>>
    /\ UNCHANGED injectorVars

\* apply-config.py run as a subprocess when it exists; its return code only
\* chooses the message printed.
UploadApplyLocal ==
    /\ env.entry = "upload.py" /\ pc = "apply"
    /\ IF env.apply_script
       THEN LET x == ApplyConfigMain(env, files, loan_config)
            IN  files' = x.files /\ written' = written \cup x.written
       ELSE UNCHANGED <<files, written>>
    /\ pc' = "download"
    /\ UNCHANGED <<env, config, build_exists, uploaded, ftp_calls, status>>
    /\ UNCHANGED injectorVars

\* Faulty variant: the exit after a failed download leaves without the
\* finally clause (as a sys.exit outside the try block would).
UploadDownloadNoCleanup ==
    /\ env.entry = "upload.py" /\ pc = "download"
    /\ IF env.net
       THEN pc' = "prepare" /\ status' = status
       ELSE pc' = "done" /\ status' = "1"
    /\ UNCHANGED <<env, config, files, build_exists, written, uploaded, ftp_calls>>
    /\ UNCHANGED injectorVars

\* download_d3js returns False on any exception of urlretrieve, and main
\* then calls sys.exit(1) inside the try block.
UploadDownload ==
    /\ env.entry = "upload.py" /\ pc = "download"
    /\ IF env.net
       THEN pc' = "prepare" /\ status' = status
       ELSE pc' = "finally" /\ status' = "1"
    /\ UNCHANGED <<env, config, files, build_exists, written, uploaded, ftp_calls>>
    /\ UNCHANGED injectorVars

UploadPrepare ==
    /\ env.entry = "upload.py" /\ pc = "prepare"
    /\ LET x == PrepareFiles(env, config, files, loan_config)
       IN  /\ files' = x.files
           /\ written' = written \cup x.written
           /\ IF x.status = "ok"
              THEN pc' = "upload" /\ status' = status
              ELSE pc' = "finally" /\ status' = x.status
    /\ UNCHANGED <<env, config, build_exists, uploaded, ftp_calls>>
    /\ UNCHANGED injectorVars

\* upload_to_ftp returns False on any FTP error.
UploadFtp ==
    /\ env.entry = "upload.py" /\ pc = "upload"
    /\ ftp_calls' = ftp_calls + 1
    /\ IF env.ftp
       THEN uploaded' = files[BuildIndex] /\ status' = "0"
       ELSE uploaded' = uploaded /\ status' = "1"
    /\ pc' = "finally"
    /\ UNCHANGED <<env, config, files, build_exists, written>>
    /\ UNCHANGED injectorVars

\* finally: rmtree of the build directory
UploadFinally ==
    /\ env.entry = "upload.py" /\ pc = "finally"
    /\ build_exists' = FALSE
    /\ files' = [files EXCEPT ![BuildIndex] = NoFile]
    /\ pc' = "done"
    /\ UNCHANGED <<env, config, written, uploaded, ftp_calls, status>>
    /\ UNCHANGED injectorVars

\* The documents and loan sections the entry points are run on.
ScriptDocuments == { Form(KeySet), <<Full(<<"principal">>), WithPh(<<DSP>>)>> }

ScriptConfigs ==
    { LoanConfig(KeySet, "A", PlainPlaceholder, FALSE),
      LoanConfig(KeySet \ {"principal"}, "A", PlainPlaceholder, FALSE),
      LoanConfig(KeySet \ {"duration"}, "A", NoPlaceholder, FALSE),
      LoanConfig(KeySet \ {"default_special_payment"}, "A", NoPlaceholder, FALSE),
      LoanConfig({}, "A", NoPlaceholder, FALSE) }

Entries == {"apply-config.py", "apply_config.py", "upload.py"}

Environments ==
    { e \in [ entry : Entries,
              config_file : {"absent", "unparsable", "parsed"},
              has_loan : BOOLEAN, has_ftp : BOOLEAN,
              output : {IndexHtml, OutHtml},
              dotenv : BOOLEAN, creds : BOOLEAN, apply_script : BOOLEAN,
              net : BOOLEAN, assets : BOOLEAN, ftp : BOOLEAN ] :
        \* what an entry point never reads is held fixed
        /\ e.config_file # "parsed" => ~e.has_loan /\ ~e.has_ftp
        /\ e.entry # "apply_config.py" => e.output = IndexHtml
        /\ e.entry # "upload.py" =>
              /\ ~e.has_ftp /\ ~e.dotenv /\ ~e.creds /\ ~e.apply_script
              /\ ~e.net /\ ~e.assets /\ ~e.ftp }

ScriptInit ==
    /\ env \in Environments
    /\ tags \in ScriptDocuments
    /\ loan_config \in ScriptConfigs
    /\ env.has_loan \/ loan_config = LoanConfig(KeySet, "A", PlainPlaceholder, FALSE)
    /\ html_content = CdnScript \o TagsText(tags)
    /\ \E there \in BOOLEAN, left \in BOOLEAN :
          /\ files = [NoFiles EXCEPT
                        ![IndexHtml] = IF there THEN File(html_content) ELSE NoFile,
                        ![BuildIndex] = IF left THEN File(<<"stale">>) ELSE NoFile]
          /\ build_exists = left
          /\ left => env.entry = "upload.py"
    /\ out_utils = NotRun
    /\ out_script = NotRun
    /\ out_again = NotRun
    /\ runs = 0
    /\ config = "unloaded"
    /\ written = {}
    /\ uploaded = NoFile
    /\ ftp_calls = 0
    /\ pc = "start"
    /\ status = "running"

ScriptNext ==
    \/ RunApplyConfig
    \/ RunApplyConfigToHtml
    \/ UploadLoad
    \/ UploadCredentials
    \/ UploadMkdir
    \/ UploadApplyLocal
    \/ UploadDownload
    \/ UploadPrepare
    \/ UploadFtp
    \/ UploadFinally

ScriptSpec == ScriptInit /\ [][ScriptNext]_vars

-----------------------------------------------------------------------------
(* What the claims speak of *)

HasAttr(t, n) == \E i \in DOMAIN t.attrs : t.attrs[i].n = <<n>>
Pos(t, n) == CHOOSE i \in DOMAIN t.attrs : t.attrs[i].n = <<n>>
Content(t, n) == t.attrs[Pos(t, n)].c

\* t with the content of the attribute named exactly n set to c
SetAttr(t, n, c) ==
    [t EXCEPT !.attrs = [i \in DOMAIN t.attrs |->
        IF t.attrs[i].n = <<n>> THEN Attr(<<n>>, c) ELSE t.attrs[i]]]

\* every attribute name of t is one lexeme (no data- prefix)
PlainNames(t) == \A i \in DOMAIN t.attrs : Len(t.attrs[i].n) = 1

\* t is an input whose id is exactly the field id of key k
TagOf(t, k) ==
    t.open = INPUT /\ HasAttr(t, "id=") /\ Content(t, "id=") = <<FieldId(k)>>

\* ... and whose id attribute stands before its attribute n
IdThen(t, k, n) == TagOf(t, k) /\ HasAttr(t, n) /\ Pos(t, "id=") < Pos(t, n)

\* ... and whose attribute n stands before its id attribute
ThenId(t, k, n) == TagOf(t, k) /\ HasAttr(t, n) /\ Pos(t, n) < Pos(t, "id=")

\* an input whose id holds a field id as a proper prefix or suffix only
LongerIdTag(t) == t.open = INPUT /\ HasAttr(t, "id=") /\ Content(t, "id=") \in LongerIds

Complete(cfg) == DOMAIN cfg = KeySet
Configured(k) == Str(loan_config[k].value)
PhConfigured == "placeholder" \in DOMAIN loan_config["default_special_payment"]

\* Segment j of an outcome is the text before tag j, then tag t.
SegmentIs(out, j, t) ==
    /\ Len(Segments(out.html)) = Len(tags) + 1
    /\ Segments(out.html)[j] = Before \o TagText(t)

TextAfterKept(out) == Segments(out.html)[Len(Segments(out.html))] = After

Outcomes == {out_utils, out_script}

-----------------------------------------------------------------------------
(* C1: for every key and configured value V, an input tag with id="<field id>"
   followed by value="OLD" (other attributes before, between and after them)
   comes out of apply_loan_parameters, in either copy, with the content of
   value equal to str(V), ungrouped and without currency sign, its other
   attributes as they were, and the text before the tag and after the last
   tag unchanged. *)
C1Tag(t, k) ==
    /\ IdThen(t, k, "value=")
    /\ PlainNames(t)
    /\ ~HasAttr(t, "placeholder=")

C1_ValueIsStrOfConfigured ==
    \A out \in Outcomes : out.status = "ok" /\ Complete(loan_config) =>
        /\ TextAfterKept(out)
        /\ \A j \in DOMAIN tags : \A k \in KeySet :
              C1Tag(tags[j], k) =>
                /\ SegmentIs(out, j, SetAttr(tags[j], "value=", Configured(k)))
                /\ loan_config[k].value = PyInt(300000) =>
                      SegmentIs(out, j, SetAttr(tags[j], "value=", <<"300000">>))
                /\ loan_config[k].value = PyFloat(3, 56) =>
                      SegmentIs(out, j, SetAttr(tags[j], "value=", <<"3", ".", "56">>))

C1_Witness ==
    /\ tags = <<Full(<<"effective-rate">>)>>
    /\ loan_config["effective_rate"].value = PyFloat(3, 56)
    /\ out_utils.status = "ok" /\ out_script.status = "ok"
    /\ out_utils.html # html_content

(* C2: the tag is found by its id wherever the id stands: a tag whose value
   attribute comes before its id attribute gets the content of value replaced
   by the configured value, as a tag whose id comes first does. *)
C2_IdFoundAnywhere ==
    out_utils.status = "ok" /\ Complete(loan_config) =>
        \A j \in DOMAIN tags : \A k \in KeySet :
            ThenId(tags[j], k, "value=") /\ PlainNames(tags[j]) =>
                SegmentIs(out_utils, j, SetAttr(tags[j], "value=", Configured(k)))

(* C3: in a tag that matches a key only the content of the attribute named
   exactly value (and, for default-special-payment, placeholder) changes: the
   tag comes out as itself with at most those contents replaced, attributes
   named data-value or data-placeholder after value included, and the text
   around it is unchanged. *)
ValueContents(t, k) == {Content(t, "value="), Configured(k)}

PlaceholderContents(t, k) ==
    IF ~HasAttr(t, "placeholder=") THEN {<<>>}
    ELSE {Content(t, "placeholder=")}
         \cup (IF k = "default_special_payment" /\ PhConfigured
               THEN {loan_config[k].placeholder} ELSE {})

C3_OnlyValueAndPlaceholderChange ==
    out_utils.status = "ok" /\ Complete(loan_config) =>
        /\ TextAfterKept(out_utils)
        /\ \A j \in DOMAIN tags : \A k \in KeySet :
              IdThen(tags[j], k, "value=") =>
                \E cv \in ValueContents(tags[j], k) :
                \E cp \in PlaceholderContents(tags[j], k) :
                    SegmentIs(out_utils, j,
                        SetAttr(SetAttr(tags[j], "value=", cv), "placeholder=", cp))

(* C4: the id match is exact: an input tag whose id holds a field id only as a
   proper prefix or suffix (interest-rate-extra, interest-rate-custom,
   my-interest-rate) comes out unaltered, and a document whose tags are all
   of that kind is returned unchanged. *)
C4_LongerIdUntouched ==
    \A out \in Outcomes : out.status = "ok" /\ Complete(loan_config) =>
        /\ \A j \in DOMAIN tags :
              LongerIdTag(tags[j]) => SegmentIs(out, j, tags[j])
        /\ (\A j \in DOMAIN tags : LongerIdTag(tags[j])) => out.html = html_content

C4_Witness ==
    /\ tags = <<Plain(<<"interest-rate", "-custom">>)>>
    /\ Complete(loan_config)
    /\ out_utils.status = "ok" /\ out_script.status = "ok"

(* C5 and C7 are about the entry points, under ScriptSpec. *)

Errors == {"1", "KeyError", "FileNotFoundError"}
IndexUntouched ==
    files[IndexHtml] \in {NoFile, File(html_content)} /\ ~files[OutHtml].exists
NothingOut == written = {} /\ uploaded = NoFile /\ IndexUntouched

\* The run got as far as calling apply_loan_parameters on the document.
InjectorCalled ==
    /\ pc = "done"
    /\ env.has_loan
    /\ files[IndexHtml].exists
    /\ env.entry = "upload.py" =>
          (env.dotenv \/ env.has_ftp) /\ env.creds /\ env.net /\ env.assets

(* C5, as claimed: if the loan section lacks any of the six keys, the
   injection fails with an error, the document is left as it was and the
   calling entry point writes nothing. *)
C5_MissingKeyFails ==
    env.has_loan /\ MissingKey(loan_config) =>
        /\ NothingOut
        /\ pc = "done" => status \in Errors

(* C5, amended: if the loan section is not empty and lacks one of the six
   keys, apply_loan_parameters raises KeyError before any substitution, the
   entry point ends with it, and index.html, the -o file and the build copy
   are not written and nothing is uploaded.  (An empty loan section raises
   nothing in config_utils: the document is returned, and written, as it
   was.) *)
C5_NonEmptyMissingKeyFails ==
    env.has_loan /\ MissingKey(loan_config) /\ DOMAIN loan_config # {} =>
        /\ NothingOut
        /\ pc = "done" => status \in Errors
        /\ InjectorCalled => status = "KeyError"

C5_Witness ==
    /\ env.entry = "upload.py"
    /\ "duration" \notin DOMAIN loan_config /\ "principal" \in DOMAIN loan_config
    /\ InjectorCalled
    /\ status = "KeyError"
    /\ ~build_exists

(* C7, as claimed: when config.yml is absent or unparsable an error reaches
   the caller and no entry point writes index.html or the build copy of it,
   and nothing is uploaded. *)
C7_NoConfigNoOutput ==
    env.config_file # "parsed" =>
        /\ written = {}
        /\ ftp_calls = 0
        /\ uploaded = NoFile
        /\ pc = "done" => status \in Errors

(* C7, amended: when config.yml is absent or unparsable, apply-config.py and
   apply_config.py end with status 1 and write nothing, and no entry point
   writes the local index.html.  upload.py goes on with config = None
   (load_config warns and returns None): without credentials from .env it
   exits with status 1 before anything is created; with them it writes the
   build copy of index.html with the D3.js reference replaced and no loan
   parameter injected, and uploads it when download, assets and FTP allow. *)
Uninjected == File(StrReplace(html_content, CdnScript, LocalScript))

C7_NoConfigOnlyUploadGoesOn ==
    env.config_file # "parsed" =>
        /\ IndexUntouched /\ written \subseteq {BuildIndex}
        /\ env.entry # "upload.py" =>
              /\ written = {} /\ uploaded = NoFile
              /\ pc = "done" => status = "1"
        /\ env.entry = "upload.py" =>
              /\ config \in {"unloaded", "None"}
              /\ ~(env.dotenv /\ env.creds) =>
                    /\ written = {} /\ ftp_calls = 0
                    /\ pc \in {"start", "credentials", "done"}
                    /\ pc = "done" => status = "1"
              /\ BuildIndex \in written /\ build_exists => files[BuildIndex] = Uninjected
              /\ uploaded \in {NoFile, Uninjected}
              /\ pc = "done" /\ env.dotenv /\ env.creds /\ env.net /\ env.assets
                   /\ env.ftp /\ files[IndexHtml].exists =>
                    status = "0" /\ uploaded = Uninjected

C7_Witness ==
    /\ env.entry = "upload.py"
    /\ env.config_file = "absent"
    /\ pc = "done" /\ status = "0"
    /\ uploaded = Uninjected

(* C6: in config_utils.apply_loan_parameters, with a placeholder configured
   for default_special_payment the tag with id="default-special-payment" gets
   both its value and its placeholder content rewritten; with none configured
   only value is rewritten and placeholder stays; the placeholder of the tag
   of any other key never changes, whatever that key's entry holds. *)
C6Tag(t, k) ==
    /\ IdThen(t, k, "value=")
    /\ IdThen(t, k, "placeholder=")
    /\ PlainNames(t)

C6_PlaceholderOnlyWhenConfigured ==
    out_utils.status = "ok" /\ Complete(loan_config) =>
        \A j \in DOMAIN tags : \A k \in KeySet :
            C6Tag(tags[j], k) =>
                LET valued == SetAttr(tags[j], "value=", Configured(k))
                IN  IF k = "default_special_payment" /\ PhConfigured
                    THEN SegmentIs(out_utils, j,
                            SetAttr(valued, "placeholder=", loan_config[k].placeholder))
                    ELSE SegmentIs(out_utils, j, valued)

C6_Witness ==
    /\ tags = <<PhFirst(<<DSP>>)>>
    /\ Complete(loan_config) /\ PhConfigured
    /\ out_utils.status = "ok"
    /\ out_utils.html # html_content

(* C8: for every subset of the six ids present in the form,
   apply_loan_parameters raises nothing for the absent ids, introduces no tag
   and no id for them, and still sets the value of every id that is present;
   a document with none of the ids is returned unchanged. *)
Count(s, x) == Cardinality({i \in DOMAIN s : s[i] = x})
Occurs(s, x) == \E i \in DOMAIN s : s[i] = x

C8_AbsentIdsSkipped ==
    \A out \in Outcomes : out # NotRun /\ Complete(loan_config) =>
        /\ out.status = "ok"
        /\ Count(out.html, INPUT) = Count(html_content, INPUT)
        /\ \A k \in KeySet :
              ~Occurs(html_content, FieldId(k)) => ~Occurs(out.html, FieldId(k))
        /\ (\A k \in KeySet : ~Occurs(html_content, FieldId(k))) =>
              out.html = html_content
        /\ \A S \in SUBSET KeySet : tags = Form(S) =>
              \A j \in DOMAIN tags : \A k \in S :
                  TagOf(tags[j], k) =>
                      \E cp \in PlaceholderContents(tags[j], k) :
                          SegmentIs(out, j,
                              SetAttr(SetAttr(tags[j], "value=", Configured(k)),
                                      "placeholder=", cp))

C8_Witness ==
    /\ tags = Form({"interest_rate", "duration"})
    /\ Complete(loan_config)
    /\ out_utils.status = "ok" /\ out_script.status = "ok"
    /\ out_utils.html # html_content

(* C9: injection is idempotent: applying apply_loan_parameters with the same
   configuration to its own output gives that output again. *)
C9_Idempotent ==
    out_again.status = "ok" => out_again.html = out_utils.html

(* C10: the two copies of the injector agree: for a configuration with all six
   keys, with or without a placeholder, apply_config.apply_loan_parameters
   returns the document config_utils.apply_loan_parameters returns. *)
C10_CopiesAgree ==
    Complete(loan_config) /\ out_utils.status = "ok" /\ out_script.status = "ok" =>
        out_script.html = out_utils.html

(* C11: in upload.py main, once .build has been created it is removed on every
   way the run can end (deployment done, D3.js download failed, an exception
   in prepare_files, FTP failure): no run that created it ends with .build or
   its index.html left, and upload_to_ftp is called, once at most, only after
   download_d3js returned True and prepare_files wrote the build copy. *)

\* The run came past the credential checks, so build_dir.mkdir() was reached.
BuildCreated ==
    /\ env.entry = "upload.py"
    /\ pc \notin {"start", "credentials", "mkdir"}
    /\ pc = "done" => (env.dotenv \/ (config = "dict" /\ env.has_ftp)) /\ env.creds

C11_BuildRemovedAndFtpLast ==
    /\ BuildCreated /\ pc = "done" =>
          /\ ~build_exists /\ ~files[BuildIndex].exists
          /\ status \in {"0", "1", "KeyError", "FileNotFoundError"}
    /\ BuildCreated /\ pc \notin {"done"} => build_exists
    /\ ftp_calls > 0 =>
          /\ ftp_calls = 1
          /\ BuildCreated /\ pc \in {"finally", "done"}
          /\ env.net /\ env.assets
          /\ BuildIndex \in written
    /\ pc = "upload" => ftp_calls = 0 /\ env.net /\ files[BuildIndex].exists

\* A run that created .build and ended by an exception of prepare_files.
C11_Witness ==
    /\ BuildCreated /\ pc = "done"
    /\ status = "FileNotFoundError"
    /\ env.net
    /\ ftp_calls = 0
    /\ ~build_exists

====
